---- MODULE Spec2Model ----
(***************************************************************************)
(* Model of memslasermachining/layout_sequencing.py: class LayoutSequencer. *)
(*                                                                         *)
(* The six attributes of a LayoutSequencer are the state; every public     *)
(* method is one action that runs the whole call, including the            *)
(* validate_state wrapper, and records in lastOp / result which method ran *)
(* and how it ended (normal return, or the exception that left the call).  *)
(*                                                                         *)
(* Python's None is the record Unset, any other value v is Some(v).        *)
(* np.array is modelled with the "copy only if needed" meaning of          *)
(* copy = False that the code was written against.                         *)
(***************************************************************************)
EXTENDS Integers, Sequences, FiniteSets, Bags, TLC

\* ------------------------------------------------------------------ bounds
\* Longest list of array-likes handed to set_polygons.
MaxPolygons == 2

\* Number of method calls made on one LayoutSequencer.
MaxCalls == 4

\* ------------------------------------------------------- optional values
Unset == [set |-> FALSE]
Some(v) == [set |-> TRUE, val |-> v]

\* ------------------------------------------------------------- inputs
\* config.DEFAULT_TARGET_INIT_SEPARATION (imported on line 9); config.py
\* sets its value, for which the model takes one of the Separations.
DEFAULT_TARGET_INIT_SEPARATION == 2

\* Separations a caller passes to set_target_init_separation.
Separations == {1, 2}

\* Contents of the well-formed vertex arrays used as inputs.
PolygonIds == {1, 2}

\* An array-like as np.array sees it: whether it converts to float64, and
\* the rank and the second dimension of the array it converts to. The
\* inputs are the well-formed [N][2] arrays, one that does not convert and
\* one of shape [N][3].
ArrayLikes ==
    {[conv |-> TRUE, ndim |-> 2, cols |-> 2, id |-> p] : p \in PolygonIds}
    \cup {[conv |-> FALSE, ndim |-> 0, cols |-> 0, id |-> 0],
          [conv |-> TRUE, ndim |-> 2, cols |-> 3, id |-> 0]}

SeqsUpTo(S, n) == UNION {[1..k -> S] : k \in 0..n}

PolygonInputs == SeqsUpTo(ArrayLikes, MaxPolygons)

\* Lists given to set_target_init_separation: every length from 0 to that of
\* the longest layout, so shorter and longer than the layout that is set.
SeparationLists == SeqsUpTo(Separations, MaxPolygons)

\* ------------------------------------------------- outcome of a call
\* The text of an exception is a list of parts: literal text, and the
\* values formatted into it, each under the name of the expression.
Literal(s) == [part |-> "literal", s |-> s, v |-> <<>>]
Formatted(name, v) == [part |-> name, s |-> "", v |-> v]

Returned == [kind |-> "ok", type |-> "none", text |-> <<>>]
Raised(kind, type, text) == [kind |-> kind, type |-> type, text |-> text]

\* ------------------------------------------------- external planner
\* polygon_sequencing.PolygonSequencer: construct-or-fail from a polygon and
\* a separation; on success a pass count and that many passes of points.
PlannerFails(vertices, sep) == vertices = 2 /\ sep = 1

PlannerNumPasses(vertices, sep) == vertices + sep - 1

PlannerPass(vertices, sep, k) ==
    [j \in 1..(IF k = 1 THEN 2 ELSE 1) |-> <<vertices, sep, k, j>>]

PolygonSequencingError(vertices, sep) ==
    [diagnostic |-> <<"unsequenceable", vertices, sep>>]

PolygonSequencer(vertices, sep) ==
    IF PlannerFails(vertices, sep)
    THEN [ok |-> FALSE, error |-> PolygonSequencingError(vertices, sep)]
    ELSE [ok |-> TRUE,
          sequencer |->
              [vertices |-> vertices,
               target_init_separation |-> sep,
               num_passes |-> PlannerNumPasses(vertices, sep),
               sequence |-> [k \in 1..PlannerNumPasses(vertices, sep)
                                |-> PlannerPass(vertices, sep, k)]]]

\* ------------------------------------------------------------- state
VARIABLES polygons_as_vertices, num_polygons, target_init_separation,
          staggered, polygon_sequencers, sequence,
          lastOp, argument, result, polygons_were_set,
          sequence_was_generated, calls, prior_results

config == <<polygons_as_vertices, num_polygons, target_init_separation,
            staggered>>
derived == <<polygon_sequencers, sequence>>
vars == <<polygons_as_vertices, num_polygons, target_init_separation,
          staggered, polygon_sequencers, sequence,
          lastOp, argument, result, polygons_were_set,
          sequence_was_generated, calls, prior_results>>

\* LayoutSequencer.__init__
Init ==
    /\ polygons_as_vertices = Unset
    /\ num_polygons = Unset
    /\ target_init_separation = Unset
    /\ staggered = FALSE
    /\ polygon_sequencers = Unset
    /\ sequence = Unset
    /\ lastOp = "__init__"
    /\ argument = <<>>
    /\ result = Returned
    /\ polygons_were_set = FALSE
    /\ sequence_was_generated = FALSE
    /\ calls = 0
    /\ prior_results = [planners |-> FALSE, sequence |-> FALSE]

\* One more call, of the method named with the argument given. For a
\* generate_sequence call prior_results tells which of polygon_sequencers
\* and sequence were set when it began.
Called(method_name, given) ==
    /\ calls < MaxCalls
    /\ calls' = calls + 1
    /\ lastOp' = method_name
    /\ argument' = given
    /\ prior_results' =
           [planners |-> method_name = "generate_sequence"
                             /\ polygon_sequencers.set,
            sequence |-> method_name = "generate_sequence" /\ sequence.set]

\* ---------------------------------------------------- validate_state
\* getattr(self, attribute_name), of the attributes the decorators name
GetAttr(attribute_name) ==
    IF attribute_name = "polygons_as_vertices" THEN polygons_as_vertices
    ELSE sequence

\* wrapper: getattr(self, attribute_name) is None -> RuntimeError
AttributeIsNone(attribute_name) == GetAttr(attribute_name) = Unset

\* Variant: view_sequence decorated like the two methods above it.
ViewSequenceRequiresPolygons == "polygons_as_vertices"

\* The attribute each decorated method requires (lines 65, 87 and 118).
SetTargetInitSeparationRequires == "polygons_as_vertices"
GenerateSequenceRequires == "polygons_as_vertices"
ViewSequenceRequires == "sequence"

ErrorMessageRoot(attribute_name) ==
    IF attribute_name = "polygons_as_vertices" THEN "Set polygons"
    ELSE "Generate sequence"

PreconditionError(attribute_name, method_name) ==
    Raised("PreconditionError", "RuntimeError",
           <<Literal(ErrorMessageRoot(attribute_name)),
             Literal(" before invoking "), Literal(method_name),
             Literal("()")>>)

\* range(None)
RangeOfNone ==
    Raised("TypeError", "TypeError",
           <<Literal("'NoneType' object cannot be interpreted as an integer")>>)

\* ------------------------------------------------------ set_polygons
\* raise ValueError(...) of lines 54 and 57
InvalidInputError(message) ==
    Raised("InvalidInputError", "ValueError", <<Literal(message)>>)
\* np.array(vertices_arraylike, dtype = np.float64) raises
ConversionFails(vertices_arraylike) == ~vertices_arraylike.conv

\* vertices_ndarray.ndim != 2 or vertices_ndarray.shape[1] != 2
ShapeViolated(vertices_ndarray) ==
    vertices_ndarray.ndim # 2 \/ vertices_ndarray.cols # 2

PointArray(vertices_ndarray) == vertices_ndarray.id

\* The for loop of set_polygons over the input that is left, appending to
\* the list already stored in self.polygons_as_vertices.
RECURSIVE ConvertPolygons(_, _)
ConvertPolygons(rest, stored) ==
    IF rest = <<>> THEN [outcome |-> Returned, stored |-> stored]
    ELSE IF ConversionFails(Head(rest))
    THEN [outcome |-> InvalidInputError(
                 "Input arrays cannot be converted to numpy arrays"),
          stored |-> stored]
    ELSE IF ShapeViolated(Head(rest))
    THEN [outcome |-> InvalidInputError(
                 "Input arrays violate [N][2] shape requirement"),
          stored |-> stored]
    ELSE ConvertPolygons(Tail(rest), Append(stored, PointArray(Head(rest))))

\* Variant: separations already set are kept.
DefaultSeparationsUnlessSet(count) ==
    IF target_init_separation.set THEN target_init_separation.val
    ELSE [i \in 1..count |-> DEFAULT_TARGET_INIT_SEPARATION]

\* [DEFAULT_TARGET_INIT_SEPARATION for _ in range(self.num_polygons)]
DefaultSeparations(count) ==
    [i \in 1..count |-> DEFAULT_TARGET_INIT_SEPARATION]

set_polygons(input) ==
    LET loop == ConvertPolygons(input, <<>>) IN
    /\ Called("set_polygons", input)
    /\ result' = loop.outcome
    /\ polygons_as_vertices' = Some(loop.stored)
    /\ IF loop.outcome.kind = "ok"
       THEN /\ num_polygons' = Some(Len(loop.stored))
            /\ target_init_separation' =
                   Some(DefaultSeparations(Len(loop.stored)))
            /\ polygons_were_set' = TRUE
       ELSE UNCHANGED <<num_polygons, target_init_separation,
                        polygons_were_set>>
    /\ UNCHANGED <<staggered, polygon_sequencers, sequence,
                   sequence_was_generated>>

\* ---------------------------------------- set_target_init_separation
\* The argument: a Python list of numbers, or a single number.
AsList(items) == [is_list |-> TRUE, items |-> items, number |-> 0]
AsNumber(x) == [is_list |-> FALSE, items |-> <<>>, number |-> x]

SeparationArguments ==
    {AsList(l) : l \in SeparationLists} \cup {AsNumber(x) : x \in Separations}

\* raise ValueError(...) of line 73
ConfigurationMismatchError ==
    Raised("ConfigurationMismatchError", "ValueError",
           <<Literal("List of target initial pass separations does not "),
             Literal("match the number of polygons")>>)

\* Variant: only a list that is too long is a mismatch.
LengthExceeds(items, count) ==
    count = Unset \/ Len(items) > count.val

\* Variant: only a list that is too short is a mismatch.
LengthBelow(items, count) ==
    count = Unset \/ Len(items) < count.val

\* len(target_init_separation_um) != self.num_polygons; an int never
\* equals None.
LengthMismatch(items, count) ==
    count = Unset \/ Len(items) # count.val

\* Variant: the default is repeated, not the number given.
UniformSeparationsOfDefault(separation, count) ==
    [i \in 1..count |-> DEFAULT_TARGET_INIT_SEPARATION]

\* [target_init_separation_um for _ in range(self.num_polygons)]
UniformSeparations(separation, count) == [i \in 1..count |-> separation]

set_target_init_separation(argument_um) ==
    /\ Called("set_target_init_separation", argument_um)
    /\ IF AttributeIsNone(SetTargetInitSeparationRequires)
       THEN /\ result' = PreconditionError(SetTargetInitSeparationRequires,
                                           "set_target_init_separation")
            /\ UNCHANGED target_init_separation
       ELSE IF argument_um.is_list
       THEN IF LengthMismatch(argument_um.items, num_polygons)
            THEN /\ result' = ConfigurationMismatchError
                 /\ UNCHANGED target_init_separation
            ELSE /\ result' = Returned
                 /\ target_init_separation' = Some(argument_um.items)
       ELSE IF num_polygons = Unset
       THEN \* range(None)
            /\ result' = RangeOfNone
            /\ UNCHANGED target_init_separation
       ELSE /\ result' = Returned
            /\ target_init_separation' =
                   Some(UniformSeparations(argument_um.number,
                                           num_polygons.val))
    /\ UNCHANGED <<polygons_as_vertices, num_polygons, staggered,
                   polygon_sequencers, sequence, polygons_were_set,
                   sequence_was_generated>>

\* ------------------------------------------------------ set_staggered
\* Variant: the stored results are dropped when the policy changes.
set_staggered_dropping_results(flag) ==
    /\ Called("set_staggered", flag)
    /\ result' = Returned
    /\ staggered' = flag
    /\ polygon_sequencers' = Unset
    /\ sequence' = Unset
    /\ UNCHANGED <<polygons_as_vertices, num_polygons,
                   target_init_separation, polygons_were_set,
                   sequence_was_generated>>

\* Variant: decorated with validate_state('polygons_as_vertices').
set_staggered_after_polygons(flag) ==
    /\ Called("set_staggered", flag)
    /\ IF AttributeIsNone("polygons_as_vertices")
       THEN /\ result' = PreconditionError("polygons_as_vertices",
                                           "set_staggered")
            /\ UNCHANGED staggered
       ELSE /\ result' = Returned
            /\ staggered' = flag
    /\ UNCHANGED <<polygons_as_vertices, num_polygons,
                   target_init_separation, polygon_sequencers, sequence,
                   polygons_were_set, sequence_was_generated>>

set_staggered(flag) ==
    /\ Called("set_staggered", flag)
    /\ result' = Returned
    /\ staggered' = flag
    /\ UNCHANGED <<polygons_as_vertices, num_polygons,
                   target_init_separation, polygon_sequencers, sequence,
                   polygons_were_set, sequence_was_generated>>

\* -------------------------------------------------- generate_sequence
\* raise ValueError(f"Polygons could not be sequenced\n{error}")
SequencingError(error) ==
    Raised("SequencingError", "ValueError",
           <<Literal("Polygons could not be sequenced\n"),
             Formatted("error", error.diagnostic)>>)

\* a list indexed past its end
IndexError ==
    Raised("IndexError", "IndexError", <<Literal("list index out of range")>>)

\* max([])
MaxOfEmpty ==
    Raised("ValueError", "ValueError",
           <<Literal("max() arg is an empty sequence")>>)

\* Variant: the first polygon is taken at every index.
VerticesAtFirst(polygon_index) == polygons_as_vertices.val[1]

\* vertices = self.polygons_as_vertices[polygon_index]
VerticesAt(polygon_index) == polygons_as_vertices.val[polygon_index + 1]

\* Variant: the first separation is taken at every index.
SeparationAtFirst(polygon_index) == target_init_separation.val[1]

\* target_init_separation = self.target_init_separation[polygon_index]
SeparationAt(polygon_index) == target_init_separation.val[polygon_index + 1]

\* The for loop over range(self.num_polygons), from polygon_index on (the
\* index counts from 0 as in the code), with the sequencers appended so far.
RECURSIVE SequencePolygons(_, _)
SequencePolygons(polygon_index, sequencers) ==
    IF polygon_index >= num_polygons.val
    THEN [outcome |-> Returned, sequencers |-> sequencers]
    ELSE IF polygon_index + 1 > Len(polygons_as_vertices.val)
    THEN [outcome |-> IndexError, sequencers |-> sequencers]
    ELSE IF polygon_index + 1 > Len(target_init_separation.val)
    THEN [outcome |-> IndexError, sequencers |-> sequencers]
    ELSE LET built == PolygonSequencer(VerticesAt(polygon_index),
                                       SeparationAt(polygon_index))
         IN  IF ~built.ok
             THEN [outcome |-> SequencingError(built.error),
                   sequencers |-> sequencers]
             ELSE SequencePolygons(polygon_index + 1,
                                   Append(sequencers, built.sequencer))

\* num_passes_by_polygon, appended to in step with self.polygon_sequencers
NumPassesByPolygon(sequencers) ==
    [i \in 1..Len(sequencers) |-> sequencers[i].num_passes]

\* max(num_passes_by_polygon), of a list that is not empty
MaxNumPasses(num_passes_by_polygon) ==
    CHOOSE m \in {num_passes_by_polygon[i] :
                      i \in 1..Len(num_passes_by_polygon)} :
        \A i \in 1..Len(num_passes_by_polygon) : num_passes_by_polygon[i] <= m

\* [[] for _ in range(max_num_passes)]
EmptyGroups(max_num_passes) == [k \in 1..max_num_passes |-> <<>>]

\* Variant: the polygon's pass is put in front of the group.
ExtendGroupsAtFront(groups, polygon_sequencer) ==
    [k \in 1..Len(groups) |->
        IF k <= polygon_sequencer.num_passes
        THEN polygon_sequencer.sequence[k] \o groups[k]
        ELSE groups[k]]

\* Variant: the polygon's pass replaces the group.
ExtendGroupsByAssignment(groups, polygon_sequencer) ==
    [k \in 1..Len(groups) |->
        IF k <= polygon_sequencer.num_passes
        THEN polygon_sequencer.sequence[k]
        ELSE groups[k]]

\* for pass_index in range(num_passes):
\*     self.sequence[pass_index].extend(polygon_sequencer.sequence[pass_index])
ExtendGroups(groups, polygon_sequencer) ==
    [k \in 1..Len(groups) |->
        IF k <= polygon_sequencer.num_passes
        THEN groups[k] \o polygon_sequencer.sequence[k]
        ELSE groups[k]]

\* for polygon_sequencer in self.polygon_sequencers, staggered branch
RECURSIVE MergePasses(_, _)
MergePasses(groups, sequencers) ==
    IF sequencers = <<>> THEN groups
    ELSE MergePasses(ExtendGroups(groups, Head(sequencers)), Tail(sequencers))

StaggeredSequence(sequencers) ==
    MergePasses(EmptyGroups(MaxNumPasses(NumPassesByPolygon(sequencers))),
                sequencers)

\* Variant: the polygon's passes are put in front of the sequence.
ExtendSequenceAtFront(passes, polygon_sequencer) ==
    polygon_sequencer.sequence \o passes

\* self.sequence.extend(polygon_sequencer.sequence)
ExtendSequence(passes, polygon_sequencer) ==
    passes \o polygon_sequencer.sequence

\* for polygon_sequencer in self.polygon_sequencers, sequential branch
RECURSIVE ConcatenatePasses(_, _)
ConcatenatePasses(passes, sequencers) ==
    IF sequencers = <<>> THEN passes
    ELSE ConcatenatePasses(ExtendSequence(passes, Head(sequencers)),
                           Tail(sequencers))

\* Variant: the passes are added to the sequence already stored.
SequentialSequenceOntoPrior(sequencers) ==
    ConcatenatePasses(IF sequence.set THEN sequence.val ELSE <<>>, sequencers)

\* self.sequence = [] and the loop after it
SequentialSequence(sequencers) == ConcatenatePasses(<<>>, sequencers)

generate_sequence ==
    /\ Called("generate_sequence", <<>>)
    /\ IF AttributeIsNone(GenerateSequenceRequires)
       THEN /\ result' = PreconditionError(GenerateSequenceRequires,
                                           "generate_sequence")
            /\ UNCHANGED <<polygon_sequencers, sequence,
                           sequence_was_generated>>
       ELSE IF num_polygons = Unset
       THEN \* range(None), after self.polygon_sequencers = []
            /\ result' = RangeOfNone
            /\ polygon_sequencers' = Some(<<>>)
            /\ UNCHANGED <<sequence, sequence_was_generated>>
       ELSE LET loop == SequencePolygons(0, <<>>) IN
            /\ polygon_sequencers' = Some(loop.sequencers)
            /\ IF loop.outcome.kind # "ok"
               THEN /\ result' = loop.outcome
                    /\ UNCHANGED <<sequence, sequence_was_generated>>
               ELSE IF staggered /\ loop.sequencers = <<>>
               THEN \* max([])
                    /\ result' = MaxOfEmpty
                    /\ UNCHANGED <<sequence, sequence_was_generated>>
               ELSE /\ result' = Returned
                    /\ sequence' =
                           Some(IF staggered
                                THEN StaggeredSequence(loop.sequencers)
                                ELSE SequentialSequence(loop.sequencers))
                    /\ sequence_was_generated' = TRUE
    /\ UNCHANGED <<polygons_as_vertices, num_polygons,
                   target_init_separation, staggered, polygons_were_set>>

\* ------------------------------------------------------ view_sequence
\* Both branches only hand the stored data to the animation.
view_sequence(individually) ==
    /\ Called("view_sequence", individually)
    /\ IF AttributeIsNone(ViewSequenceRequires)
       THEN result' = PreconditionError(ViewSequenceRequires,
                                        "view_sequence")
       ELSE result' = Returned
    /\ UNCHANGED <<polygons_as_vertices, num_polygons,
                   target_init_separation, staggered, polygon_sequencers,
                   sequence, polygons_were_set, sequence_was_generated>>

\* ------------------------------------------------------ specification
Next ==
    \/ \E input \in PolygonInputs : set_polygons(input)
    \/ \E argument_um \in SeparationArguments :
           set_target_init_separation(argument_um)
    \/ \E flag \in BOOLEAN : set_staggered(flag)
    \/ generate_sequence
    \/ \E individually \in BOOLEAN : view_sequence(individually)

Spec == Init /\ [][Next]_vars

\* ============================================================ claims
\* The six attributes, as a frame.
attributes == <<polygons_as_vertices, num_polygons, target_init_separation,
                staggered, polygon_sequencers, sequence>>

\* The step is a call of the method named (a step that is no call leaves
\* calls alone).
IsCallOf(method_name) == calls' = calls + 1 /\ lastOp' = method_name

\* C1: as long as no set_polygons call has returned normally, a call of
\* set_target_init_separation or of generate_sequence ends in the
\* precondition error of validate_state, and in nothing else.
C1_PreconditionBeforePolygons ==
    (/\ ~polygons_were_set
     /\ lastOp \in {"set_target_init_separation", "generate_sequence"})
        => result.kind = "PreconditionError"

\* C2: a set_polygons call that raises the invalid-input error leaves
\* polygons_as_vertices, num_polygons and target_init_separation as they
\* were before the call.
C2_FailedSetPolygonsKeepsConfiguration ==
    [][(IsCallOf("set_polygons") /\ result'.kind = "InvalidInputError")
          => /\ polygons_as_vertices' = polygons_as_vertices
             /\ num_polygons' = num_polygons
             /\ target_init_separation' = target_init_separation]_vars

\* C3: a generate_sequence call that raises the sequencing error leaves
\* polygon_sequencers and sequence as they were before the call.
C3_FailedGenerateKeepsResults ==
    [][(IsCallOf("generate_sequence") /\ result'.kind = "SequencingError")
          => /\ polygon_sequencers' = polygon_sequencers
             /\ sequence' = sequence]_vars

\* ---------------------------------------------- composition (C4 - C6)
\* The last call was a generate_sequence that returned normally.
GenerateSucceeded == lastOp = "generate_sequence" /\ result.kind = "ok"

\* The planners of the layout, and the pass count each reports.
Planner(i) == polygon_sequencers.val[i]
PlannerCount == Len(polygon_sequencers.val)
PassCount(i) == Planner(i).num_passes

\* Pass k of the first i polygons, in input order, of those that have a
\* pass k.
RECURSIVE GroupOf(_, _)
GroupOf(k, i) ==
    IF i = 0 THEN <<>>
    ELSE GroupOf(k, i - 1)
             \o (IF PassCount(i) >= k THEN Planner(i).sequence[k] ELSE <<>>)

\* C4: after a generate_sequence that returned with staggered set, sequence
\* has as many groups as the largest pass count, and group k is the
\* concatenation, in polygon order, of pass k of the polygons that have at
\* least k passes.
C4_StaggeredComposition ==
    (GenerateSucceeded /\ staggered)
        => /\ sequence.set
           /\ \A i \in 1..PlannerCount : PassCount(i) <= Len(sequence.val)
           /\ \E i \in 1..PlannerCount : PassCount(i) = Len(sequence.val)
           /\ \A k \in 1..Len(sequence.val) :
                  sequence.val[k] = GroupOf(k, PlannerCount)

\* Pass counts [2, 3]: the third group holds the second polygon's last
\* pass only.
C4_Witness ==
    /\ GenerateSucceeded /\ staggered
    /\ PlannerCount = 2 /\ PassCount(1) = 2 /\ PassCount(2) = 3
    /\ Len(sequence.val) = 3
    /\ sequence.val[3] = Planner(2).sequence[3]

\* Number of passes of the first i polygons.
RECURSIVE PassesBefore(_)
PassesBefore(i) == IF i = 0 THEN 0 ELSE PassesBefore(i - 1) + PassCount(i)

\* C5: after a generate_sequence that returned with staggered clear,
\* sequence has sum(c_i) entries and pass k of polygon i stands right
\* after all passes of the polygons before i and its own earlier passes.
C5_SequentialComposition ==
    (GenerateSucceeded /\ ~staggered)
        => /\ sequence.set
           /\ Len(sequence.val) = PassesBefore(PlannerCount)
           /\ \A i \in 1..PlannerCount : \A k \in 1..PassCount(i) :
                  sequence.val[PassesBefore(i - 1) + k] = Planner(i).sequence[k]

C5_Witness ==
    /\ GenerateSucceeded /\ ~staggered
    /\ PlannerCount = 2 /\ PassCount(1) = 2 /\ PassCount(2) = 3
    /\ Len(sequence.val) = 5
    /\ sequence.val[3] = Planner(2).sequence[1]

\* The points of a list of points, and of a list of such lists, as bags.
BagOfPoints(points) ==
    [pt \in {points[j] : j \in DOMAIN points} |->
        Cardinality({j \in DOMAIN points : points[j] = pt})]

RECURSIVE BagOfPasses(_)
BagOfPasses(passes) ==
    IF passes = <<>> THEN EmptyBag
    ELSE BagOfPoints(Head(passes)) (+) BagOfPasses(Tail(passes))

\* The points of all passes of the first i planners.
RECURSIVE BagOfPlanners(_)
BagOfPlanners(i) ==
    IF i = 0 THEN EmptyBag
    ELSE BagOfPlanners(i - 1) (+) BagOfPasses(Planner(i).sequence)

\* C6: after a generate_sequence that returned, under either policy, the
\* points of sequence are, point for point with multiplicity, the points of
\* all passes of all planners; so the two point counts are equal.
C6_PointsConserved ==
    GenerateSucceeded
        => /\ sequence.set
           /\ BagOfPasses(sequence.val) = BagOfPlanners(PlannerCount)
           /\ BagCardinality(BagOfPasses(sequence.val))
                  = BagCardinality(BagOfPlanners(PlannerCount))

\* A staggered generation over planners of uneven pass count, the longer
\* one first.
C6_Witness ==
    /\ GenerateSucceeded /\ staggered
    /\ PlannerCount = 2 /\ PassCount(1) > PassCount(2)
    /\ BagCardinality(BagOfPasses(sequence.val)) >= 5

\* ------------------------------------------------- gating and setters
\* C7: as long as no generate_sequence call has returned normally, a call
\* of view_sequence ends in the precondition error.
C7_ViewBeforeGenerate ==
    (~sequence_was_generated /\ lastOp = "view_sequence")
        => result.kind = "PreconditionError"

\* view_sequence refused after polygons were set and a generate_sequence
\* call failed.
C7_Witness ==
    /\ lastOp = "view_sequence" /\ ~sequence_was_generated
    /\ polygons_were_set /\ polygon_sequencers.set
    /\ result.kind = "PreconditionError"

\* C8: after a set_polygons call that returned, given k array-likes,
\* target_init_separation is the list of k default separations.
C8_DefaultFill ==
    (lastOp = "set_polygons" /\ result.kind = "ok")
        => target_init_separation
               = Some([i \in 1..Len(argument) |->
                          DEFAULT_TARGET_INIT_SEPARATION])

\* set_polygons with two polygons, after a layout of one polygon was
\* generated with a separation that is not the default.
C8_Witness ==
    /\ lastOp = "set_polygons" /\ result.kind = "ok" /\ Len(argument) = 2
    /\ polygon_sequencers.set /\ PlannerCount = 1
    /\ Planner(1).target_init_separation # DEFAULT_TARGET_INIT_SEPARATION
    /\ target_init_separation.val
           = <<DEFAULT_TARGET_INIT_SEPARATION, DEFAULT_TARGET_INIT_SEPARATION>>

\* C9: with polygons_as_vertices set, a call of set_target_init_separation
\* with a list whose length is not num_polygons raises the mismatch error
\* and leaves all six attributes as they were.
C9_MismatchRejected ==
    [][(/\ IsCallOf("set_target_init_separation")
        /\ polygons_as_vertices.set
        /\ argument'.is_list
        /\ (num_polygons.set => Len(argument'.items) # num_polygons.val))
          => /\ result'.kind = "ConfigurationMismatchError"
             /\ UNCHANGED attributes]_vars

\* A list that is too short refused, with custom separations in place.
C9_Witness ==
    /\ lastOp = "set_target_init_separation"
    /\ result.kind = "ConfigurationMismatchError"
    /\ polygons_were_set /\ num_polygons.val = 2
    /\ Len(argument.items) = 1
    /\ target_init_separation.val # DefaultSeparations(2)

\* The index, counted from 0, of the first polygon of the layout that the
\* planner rejects with the separation at its index.
FailingPolygonIndex ==
    CHOOSE i \in 0..(num_polygons.val - 1) :
        /\ i + 1 <= Len(polygons_as_vertices.val)
        /\ PlannerFails(polygons_as_vertices.val[i + 1],
                        target_init_separation.val[i + 1])
        /\ \A j \in 0..(i - 1) :
               ~PlannerFails(polygons_as_vertices.val[j + 1],
                             target_init_separation.val[j + 1])

\* C10: the sequencing error raised by generate_sequence carries the
\* planner's diagnostic and the index of the polygon that failed.
C10_SequencingErrorNamesPolygon ==
    (lastOp = "generate_sequence" /\ result.kind = "SequencingError")
        => /\ \E j \in DOMAIN result.text :
                  /\ result.text[j].part = "error"
                  /\ result.text[j].v =
                         PolygonSequencingError(
                             polygons_as_vertices.val[FailingPolygonIndex + 1],
                             target_init_separation.val[FailingPolygonIndex + 1]
                         ).diagnostic
           /\ \E j \in DOMAIN result.text :
                  /\ result.text[j].part = "polygon_index"
                  /\ result.text[j].v = FailingPolygonIndex

\* ------------------------------------------------ C11 and later claims
\* C11: after a set_target_init_separation call that returned,
\* target_init_separation has num_polygons elements; given a list, it is
\* that list element for element, and given a number, every element is
\* that number.
C11_SeparationAssigned ==
    (lastOp = "set_target_init_separation" /\ result.kind = "ok")
        => /\ target_init_separation.set /\ num_polygons.set
           /\ Len(target_init_separation.val) = num_polygons.val
           /\ \A i \in 1..num_polygons.val :
                  target_init_separation.val[i]
                      = IF argument.is_list THEN argument.items[i]
                        ELSE argument.number

\* A number that is not the default given for a layout of two polygons.
C11_Witness ==
    /\ lastOp = "set_target_init_separation" /\ result.kind = "ok"
    /\ ~argument.is_list
    /\ argument.number # DEFAULT_TARGET_INIT_SEPARATION
    /\ num_polygons.val = 2
    /\ target_init_separation.val = <<argument.number, argument.number>>

\* C12: whenever polygons_as_vertices is set, num_polygons is set and is
\* its length.
C12_CountIsLength ==
    polygons_as_vertices.set
        => /\ num_polygons.set
           /\ num_polygons.val = Len(polygons_as_vertices.val)

\* sequence is the staggered composition of the planners now stored.
SequenceIsStaggeredComposition ==
    /\ \A i \in 1..PlannerCount : PassCount(i) <= Len(sequence.val)
    /\ \E i \in 1..PlannerCount : PassCount(i) = Len(sequence.val)
    /\ \A k \in 1..Len(sequence.val) :
           sequence.val[k] = GroupOf(k, PlannerCount)

\* sequence is the sequential composition of the planners now stored.
SequenceIsSequentialComposition ==
    /\ Len(sequence.val) = PassesBefore(PlannerCount)
    /\ \A i \in 1..PlannerCount : \A k \in 1..PassCount(i) :
           sequence.val[PassesBefore(i - 1) + k] = Planner(i).sequence[k]

\* C13: whenever sequence is set, it is the composition, under one of the
\* two policies, of the pass lists of the planners stored in
\* polygon_sequencers.
C13_SequenceDerivedFromPlanners ==
    sequence.set
        => /\ polygon_sequencers.set
           /\ \/ SequenceIsSequentialComposition
              \/ SequenceIsStaggeredComposition

\* C15: once a set_polygons call has returned normally,
\* target_init_separation has num_polygons elements.
C15_SeparationsMatchCount ==
    polygons_were_set
        => /\ target_init_separation.set /\ num_polygons.set
           /\ Len(target_init_separation.val) = num_polygons.val

\* After custom separations were set, a set_polygons call failed and left
\* a polygon list of another length behind.
C15_Witness ==
    /\ polygons_were_set
    /\ lastOp = "set_polygons" /\ result.kind = "InvalidInputError"
    /\ Len(polygons_as_vertices.val) # num_polygons.val
    /\ target_init_separation.val # DefaultSeparations(num_polygons.val)
    /\ Len(target_init_separation.val) = num_polygons.val

C17_PlannersBuiltInOrder ==
    (lastOp = "generate_sequence" /\ result.kind # "PreconditionError")
        => /\ polygon_sequencers.set
           /\ PlannerCount <= Len(polygons_as_vertices.val)
           /\ \A i \in 1..PlannerCount :
                  /\ Planner(i).vertices = polygons_as_vertices.val[i]
                  /\ Planner(i).target_init_separation
                         = target_init_separation.val[i]
           /\ result.kind = "ok" => PlannerCount = num_polygons.val
           /\ result.kind = "SequencingError"
                  => PlannerCount = FailingPolygonIndex

\* The planner failed at the second of two polygons with different
\* separations.
C17_Witness ==
    /\ lastOp = "generate_sequence" /\ result.kind = "SequencingError"
    /\ PlannerCount = 1 /\ num_polygons.val = 2
    /\ polygons_as_vertices.val[1] # polygons_as_vertices.val[2]
    /\ target_init_separation.val[1] # target_init_separation.val[2]

\* The planners that the configuration now stored determines: one per
\* separation, built from the polygon and the separation at its index.
ExpectedPlanners ==
    [i \in 1..Len(target_init_separation.val) |->
        PolygonSequencer(polygons_as_vertices.val[i],
                         target_init_separation.val[i]).sequencer]

\* C16: the polygon_sequencers and sequence left by a generate_sequence
\* call that returned are those determined by polygons_as_vertices,
\* target_init_separation and staggered alone, whatever was stored before;
\* so nothing of an earlier sequence is left and a repeated call stores
\* the same again.
C16_GenerationReplaces ==
    GenerateSucceeded
        => /\ polygon_sequencers.val = ExpectedPlanners
           /\ sequence.set
           /\ IF staggered THEN SequenceIsStaggeredComposition
              ELSE SequenceIsSequentialComposition

\* A generation that began with planners and a sequence already stored.
C16_Witness ==
    /\ GenerateSucceeded
    /\ prior_results.planners /\ prior_results.sequence
    /\ PlannerCount >= 1 /\ Len(sequence.val) >= 1

\* C18: once a generate_sequence call has returned normally, a call of
\* set_polygons, set_target_init_separation, set_staggered or
\* view_sequence, whether it returns or raises, leaves polygon_sequencers
\* and sequence as they were.
C18_OnlyGenerateChangesResults ==
    [][(/\ sequence_was_generated
        /\ calls' = calls + 1
        /\ lastOp' \in {"set_polygons", "set_target_init_separation",
                        "set_staggered", "view_sequence"})
          => UNCHANGED <<polygon_sequencers, sequence>>]_vars

\* A layout of another length set after a generation: the planners of the
\* earlier layout are still stored.
C18_Witness ==
    /\ sequence_was_generated /\ sequence.set
    /\ lastOp = "set_polygons" /\ result.kind = "ok"
    /\ PlannerCount >= 1
    /\ Len(polygons_as_vertices.val) # PlannerCount

\* C19: staggered is FALSE at construction, and every set_staggered call
\* returns normally, stores its argument in staggered and leaves the
\* other five attributes as they were.
C19_SetStaggered ==
    /\ staggered = FALSE
    /\ [][IsCallOf("set_staggered")
            => /\ result'.kind = "ok"
               /\ staggered' = argument'
               /\ UNCHANGED <<polygons_as_vertices, num_polygons,
                              target_init_separation, polygon_sequencers,
                              sequence>>]_vars

\* set_staggered(True) after a failed set_polygons and before any layout
\* was set.
C19_Witness ==
    /\ lastOp = "set_staggered" /\ result.kind = "ok"
    /\ argument = TRUE /\ staggered
    /\ ~polygons_were_set /\ polygons_as_vertices.set

\* C20: with the layout of a set_polygons call that returned in place (an
\* empty one included) and no polygon that the planner rejects, a
\* generate_sequence call returns and leaves polygon_sequencers and
\* sequence set, under either policy; for the empty layout sequence is
\* empty.
C20_GenerateSucceeds ==
    (/\ lastOp = "generate_sequence"
     /\ polygons_were_set
     /\ Len(polygons_as_vertices.val) = num_polygons.val
     /\ \A i \in 1..num_polygons.val :
            ~PlannerFails(polygons_as_vertices.val[i],
                          target_init_separation.val[i]))
        => /\ result.kind = "ok"
           /\ polygon_sequencers.set /\ sequence.set
           /\ num_polygons.val = 0 => sequence.val = <<>>

====
